---- MODULE Spec2Model ----
(***************************************************************************)
(* Model of mitsch/variant: the type-list algorithms                       *)
(* (type_algorithms.hpp), the overlapping storage cell `unified`           *)
(* (unified.hpp) and the tagged value `variant` (exceptions.hpp, which     *)
(* also carries nullvariant.hpp and variant.hpp).                          *)
(*                                                                         *)
(* Alternative types are class types with their own constructors,          *)
(* assignment operators and destructors.  Every storage cell keeps a       *)
(* ledger of the objects that were placement-constructed in it (objs),     *)
(* next to the value representation its bytes carry (rep, val), so that    *)
(* an assignment to, or a destructor call on, storage in which no object   *)
(* was constructed is visible.  Where C++ leaves the outcome open (an      *)
(* assignment to an unconstructed object, a read of indeterminate bytes,   *)
(* a moved-from value) the outcome is drawn from the payloads by the       *)
(* oracles u (indeterminate) and m (moved-from) of the action.             *)
(*                                                                         *)
(* Operations that write are actions; is, get, try_get's result and the    *)
(* comparisons only read and are operators on the state.  `last` holds     *)
(* the operation that has just returned, with its inputs, result, storage  *)
(* events and lifetime violations, until the caller goes on (Resume).      *)
(*                                                                         *)
(* Spec is the variant.  TypesSpec is type_algorithms.hpp on its own:      *)
(* has and first applied to every type list of up to MaxLen types, held    *)
(* in `query`; under Spec no list is under evaluation.                     *)
(***************************************************************************)
EXTENDS Integers, Sequences, FiniteSets, TLC

\* ---- bounds -------------------------------------------------------------
NumTypes == 2
MaxVal == 2
NumSlots == 2
MaxLen == 3

\* ---- the instantiation ------------------------------------------------
\* the alternative list (T, Ts ...): distinct types, named by numbers
TypeList == [i \in 1..NumTypes |-> i - 1]
Types == {TypeList[i] : i \in 1..NumTypes}
Payloads == 1..MaxVal
Slots == 1..NumSlots
nullvariant_t == -1
Indeterminate == 0

\* ---- type_algorithms.hpp ------------------------------------------------
RECURSIVE length(_)
length(Ts) == IF Ts = <<>> THEN 0 ELSE 1 + length(Tail(Ts))

RECURSIVE has(_, _)
has(X, Ts) ==
  IF Ts = <<>> THEN FALSE
  ELSE IF X = Head(Ts) THEN TRUE ELSE has(X, Tail(Ts))

\* a first that numbers the positions of the list from 1
RECURSIVE first_from_one(_, _)
first_from_one(X, Ts) ==
  IF Ts = <<>> THEN 0
  ELSE IF X = Head(Ts) THEN 1 ELSE 1 + first_from_one(X, Tail(Ts))

RECURSIVE first(_, _)
first(X, Ts) ==
  IF Ts = <<>> THEN 0
  ELSE IF X = Head(Ts) THEN 0 ELSE 1 + first(X, Tail(Ts))

none_initialised == length(TypeList)

\* ---- unified.hpp: the storage cell --------------------------------------
\* A cell after `unified() {}`: nothing constructed, bytes indeterminate.
EmptyCell == [objs |-> {}, rep |-> none_initialised, val |-> Indeterminate]

\* The level of the recursive union whose `head` an index reaches:
\* index == 0 operates on head, otherwise tail with index-1; the single-type
\* base case asserts index == 0 and operates on its head.
RECURSIVE route(_, _)
route(level, index) ==
  IF level = NumTypes - 1
    THEN [head |-> level, assert_ok |-> (index = 0)]
    ELSE IF index = 0
      THEN [head |-> level, assert_ok |-> TRUE]
      ELSE route(level + 1, index - 1)

\* The level whose head has type X: is_same<X, T1> selects head, otherwise
\* the tail is searched (get<X>, assign<X>, initialise<X>).
RECURSIVE locate(_, _)
locate(level, X) ==
  IF level = NumTypes - 1 \/ TypeList[level + 1] = X
    THEN level
    ELSE locate(level + 1, X)

asserted(st, r) ==
  IF r.assert_ok THEN st
  ELSE [st EXCEPT !.faults = @ \cup {"assertion_failed"}]

\* the value read from the head of type t of cell c
read_head(c, t, u) == IF c.rep = t THEN c.val ELSE u

\* head.~T()
destruct_head(st, s, t) ==
  LET c == st.vals[s] IN
  [vals   |-> [st.vals EXCEPT ![s] =
                 [objs |-> c.objs \ {t}, rep |-> none_initialised,
                  val |-> Indeterminate]],
   faults |-> st.faults \cup
                (IF t \in c.objs THEN {} ELSE {"destruct_unconstructed"}),
   ev     |-> Append(st.ev, <<"destruct", s>>)]

\* new (&head) T(v)
construct_head(st, s, t, v) ==
  LET c == st.vals[s] IN
  [vals   |-> [st.vals EXCEPT ![s] =
                 [objs |-> c.objs \cup {t}, rep |-> t, val |-> v]],
   faults |-> st.faults \cup
                (IF c.objs = {} THEN {} ELSE {"construct_over_live"}),
   ev     |-> Append(st.ev, <<"construct", s>>)]

\* head = v
assign_head(st, s, t, v, u) ==
  LET c == st.vals[s] IN
  IF t \in c.objs
    THEN [vals   |-> [st.vals EXCEPT ![s] = [c EXCEPT !.rep = t, !.val = v]],
          faults |-> st.faults,
          ev     |-> Append(st.ev, <<"assign", s>>)]
    ELSE [vals   |-> [st.vals EXCEPT ![s] = [c EXCEPT !.rep = t, !.val = u]],
          faults |-> st.faults \cup {"assign_unconstructed"},
          ev     |-> Append(st.ev, <<"assign", s>>)]

\* the state std::move leaves the head of type t of cell o in
moved_from(st, o, t, m) ==
  IF st.vals[o].rep = t
    THEN [st EXCEPT !.vals[o].val = m]
    ELSE st

destruct(st, s, index) ==
  LET r == route(0, index) IN destruct_head(asserted(st, r), s, r.head)

copy(st, s, index, o, u) ==
  LET r == route(0, index) IN
  assign_head(asserted(st, r), s, r.head, read_head(st.vals[o], r.head, u), u)

move(st, s, index, o, u, m) ==
  LET r == route(0, index) IN
  moved_from(
    assign_head(asserted(st, r), s, r.head,
                read_head(st.vals[o], r.head, u), u),
    o, r.head, m)

assign(st, s, X, x, u) == assign_head(st, s, locate(0, X), x, u)

initialise_copy(st, s, index, o, u) ==
  LET r == route(0, index) IN
  construct_head(asserted(st, r), s, r.head,
                 read_head(st.vals[o], r.head, u))

initialise_move(st, s, index, o, u, m) ==
  LET r == route(0, index) IN
  moved_from(
    construct_head(asserted(st, r), s, r.head,
                   read_head(st.vals[o], r.head, u)),
    o, r.head, m)

initialise(st, s, X, x) == construct_head(st, s, locate(0, X), x)

\* head == other.head: decided when both heads carry a value of type t
compare_heads(c1, c2, t) ==
  IF c1.rep = t /\ c2.rep = t THEN {c1.val = c2.val} ELSE BOOLEAN

truth(b) == IF b THEN "true" ELSE "false"

\* the outcomes of is_equal: the recursive case calls tail.is_eqal, a member
\* that does not exist; the base case asserts index == 0
is_equal(level, index, c1, c2) ==
  IF level = NumTypes - 1
    THEN IF index = 0
      THEN {truth(b) : b \in compare_heads(c1, c2, level)}
      ELSE {"assertion_failed"} \cup
           {truth(b) : b \in compare_heads(c1, c2, level)}
    ELSE IF index = 0
      THEN {truth(b) : b \in compare_heads(c1, c2, level)}
      ELSE {"no_member_is_eqal"}

\* the outcomes of is_not_equal: with assertions compiled in, an index that
\* is not 0 at the base case aborts; without them the heads are compared
RECURSIVE is_not_equal(_, _, _, _)
is_not_equal(level, index, c1, c2) ==
  IF level = NumTypes - 1
    THEN IF index = 0
      THEN {truth(~b) : b \in compare_heads(c1, c2, level)}
      ELSE {"assertion_failed"} \cup
           {truth(~b) : b \in compare_heads(c1, c2, level)}
    ELSE IF index = 0
      THEN {truth(~b) : b \in compare_heads(c1, c2, level)}
      ELSE is_not_equal(level + 1, index - 1, c1, c2)

\* ---- exceptions.hpp: the variant ------------------------------------------
VARIABLES
  nullable,      \* the template parameter DefaultConstructable
  alive,         \* alive[v]: the variant in slot v is constructed, not destroyed
  active_index,  \* active_index[v]
  values,        \* values[v]: the storage cell of v
  last,          \* the operation that has just returned, its inputs and
                 \* what it did; NoOp once the caller has gone on
  query          \* a type list and a type handed to type::has and
                 \* type::first, and what they yield

vars == <<nullable, alive, active_index, values, last, query>>

st0 == [vals |-> values, faults |-> {}, ev |-> <<>>]

\* the record of an operation: op on tgt (from src); was: tgt's index at
\* entry; idx, x: the index and value given (for copy and move: of src at
\* entry; for try_get: x is the stored value at entry); res, rv: the result;
\* faults: the lifetime violations of the operation; ev: its storage events
\* <<primitive, slot>> in order (construct, assign, destruct, and read for
\* the value an optional is built from)
done(op, tgt, src, was, idx, x, res, rv, st) ==
  [op |-> op, tgt |-> tgt, src |-> src, was |-> was, idx |-> idx, x |-> x,
   res |-> res, rv |-> rv, faults |-> st.faults, ev |-> st.ev]

\* no operation under observation
NoOp ==
  [op |-> "none", tgt |-> 0, src |-> 0, was |-> none_initialised,
   idx |-> none_initialised, x |-> Indeterminate, res |-> "none",
   rv |-> Indeterminate, faults |-> {}, ev |-> <<>>]

\* the caller is between two operations
idle == last.op = "none"

\* no type list under evaluation
NoQuery ==
  [Ts |-> <<>>, X |-> 0, has_known |-> FALSE, has |-> FALSE,
   first_known |-> FALSE, first |-> 0]

Init ==
  /\ nullable \in BOOLEAN
  /\ alive = [v \in Slots |-> FALSE]
  /\ active_index = [v \in Slots |-> none_initialised]
  /\ values = [v \in Slots |-> EmptyCell]
  /\ last = NoOp
  /\ query = NoQuery

\* the caller has taken the result of the operation and goes on; the
\* variants are as the operation left them
Resume ==
  /\ ~idle
  /\ last' = NoOp
  /\ UNCHANGED <<nullable, alive, active_index, values, query>>

\* the variants the caller can operate on: all of them between two
\* operations, none before it has gone on from the last one
Callable == IF idle THEN Slots ELSE {}

\* the outcomes an oracle ranges over: all payloads where the operation
\* depends on it, one payload where it does not
OracleFor(depends) ==
  IF depends THEN Payloads ELSE {CHOOSE p \in Payloads : TRUE}

\* an assignment to the head of v's active alternative meets no object
unconstructed(v) == active_index[v] \notin values[v].objs

\* a = other depends on u: the head read in other does not carry a value of
\* other's alternative, or the head assigned in a is not constructed
assign_needs_u(a, o) ==
  \/ active_index[o] # none_initialised /\ values[o].rep # active_index[o]
  \/ /\ active_index[a] = active_index[o]
     /\ active_index[a] # none_initialised
     /\ unconstructed(a)

\* v = x depends on u: X is active in v and its head is not constructed
value_assign_needs_u(v, X) ==
  active_index[v] = first(X, TypeList) /\ unconstructed(v)

\* variant()
DefaultConstruct ==
  \E v \in Callable :
      /\ nullable
      /\ ~alive[v]
      /\ alive' = [alive EXCEPT ![v] = TRUE]
      /\ active_index' = [active_index EXCEPT ![v] = none_initialised]
      /\ last' = done("default_construct", v, 0, none_initialised,
                      none_initialised, Indeterminate, "none", Indeterminate, st0)
      /\ UNCHANGED <<nullable, values, query>>

\* variant(nullvariant_t)
NullConstruct ==
  \E v \in Callable :
      /\ nullable
      /\ ~alive[v]
      /\ alive' = [alive EXCEPT ![v] = TRUE]
      /\ active_index' = [active_index EXCEPT ![v] = none_initialised]
      /\ last' = done("null_construct", v, 0, none_initialised,
                      none_initialised, Indeterminate, "none", Indeterminate, st0)
      /\ UNCHANGED <<nullable, values, query>>

\* variant(const variant & other)
CopyConstruct ==
  \E w \in Callable, other \in Slots, u \in Payloads :
      /\ ~alive[w]
      /\ alive[other]
      /\ LET i  == active_index[other]
             st == IF i # none_initialised THEN copy(st0, w, i, other, u) ELSE st0
         IN /\ alive' = [alive EXCEPT ![w] = TRUE]
            /\ active_index' = [active_index EXCEPT ![w] = i]
            /\ values' = st.vals
            /\ last' = done("copy_construct", w, other, none_initialised, i,
                            values[other].val, "none", Indeterminate, st)
      /\ UNCHANGED <<nullable, query>>

\* variant(variant && other)
MoveConstruct ==
  \E w \in Callable, other \in Slots, u \in Payloads,
     m \in OracleFor(~nullable) :
      /\ ~alive[w]
      /\ alive[other]
      /\ LET i   == active_index[other]
             st1 == IF i # none_initialised
                      THEN move(st0, w, i, other, u, m) ELSE st0
             emptied == i # none_initialised /\ nullable
             st2 == IF emptied THEN destruct(st1, other, i) ELSE st1
         IN /\ alive' = [alive EXCEPT ![w] = TRUE]
            /\ active_index' =
                 [v \in Slots |->
                    IF v = w THEN i
                    ELSE IF v = other /\ emptied THEN none_initialised
                    ELSE active_index[v]]
            /\ values' = st2.vals
            /\ last' = done("move_construct", w, other, none_initialised, i,
                            values[other].val, "none", Indeterminate, st2)
      /\ UNCHANGED <<nullable, query>>

\* variant(X && x)
ValueConstruct ==
  \E v \in Callable, X \in Types, x \in Payloads :
      /\ ~alive[v]
      /\ has(X, TypeList)
      /\ LET st == initialise(st0, v, X, x)
         IN /\ alive' = [alive EXCEPT ![v] = TRUE]
            /\ active_index' = [active_index EXCEPT ![v] = first(X, TypeList)]
            /\ values' = st.vals
            /\ last' = done("value_construct", v, 0, none_initialised,
                            first(X, TypeList), x, "none", Indeterminate, st)
      /\ UNCHANGED <<nullable, query>>

\* ~variant(): afterwards the storage is gone; an object still constructed
\* in it was never destructed
Destroy ==
  \E v \in Callable :
      /\ alive[v]
      /\ LET i   == active_index[v]
             st1 == IF i # none_initialised THEN destruct(st0, v, i) ELSE st0
             st2 == IF st1.vals[v].objs = {} THEN st1
                    ELSE [st1 EXCEPT !.faults = @ \cup {"leaked"}]
         IN /\ alive' = [alive EXCEPT ![v] = FALSE]
            /\ active_index' = [active_index EXCEPT ![v] = none_initialised]
            /\ values' = [st2.vals EXCEPT ![v] = EmptyCell]
            /\ last' = done("destroy", v, 0, i, none_initialised,
                            Indeterminate, "none", Indeterminate, st2)
      /\ UNCHANGED <<nullable, query>>

\* a copy assignment that rebuilds the alternative where the indices agree
copy_assign_rebuilds(a, other, u) ==
  LET ai == active_index[a]
      oi == active_index[other]
  IN IF ai = none_initialised /\ oi # none_initialised
       THEN initialise_copy(st0, a, oi, other, u)
     ELSE IF ai # none_initialised /\ oi = none_initialised
       THEN destruct(st0, a, ai)
     ELSE IF ai # none_initialised /\ oi # none_initialised
       THEN initialise_copy(destruct(st0, a, ai), a, oi, other, u)
     ELSE st0

\* the storage calls of operator = (const variant & other)
copy_assign(a, other, u) ==
  LET ai == active_index[a]
      oi == active_index[other]
  IN IF ai = none_initialised /\ oi # none_initialised
       THEN initialise_copy(st0, a, oi, other, u)
     ELSE IF ai # none_initialised /\ oi = none_initialised
       THEN destruct(st0, a, ai)
     ELSE IF ai # none_initialised /\ oi # none_initialised
       THEN IF ai = oi
              THEN copy(st0, a, ai, other, u)
              ELSE initialise_copy(destruct(st0, a, ai), a, oi, other, u)
     ELSE st0

\* variant& operator = (const variant & other)
CopyAssign ==
  \E a \in Callable, other \in Slots :
  \E u \in OracleFor(assign_needs_u(a, other)) :
      /\ alive[a]
      /\ alive[other]
      /\ LET st == copy_assign(a, other, u)
         IN /\ active_index' = [active_index EXCEPT ![a] = active_index[other]]
            /\ values' = st.vals
            /\ last' = done("copy_assign", a, other, active_index[a],
                            active_index[other], values[other].val, "none",
                            Indeterminate, st)
      /\ UNCHANGED <<nullable, alive, query>>

\* the storage calls of operator = (variant && other) on *this
move_assign(a, other, u, m) ==
  LET ai == active_index[a]
      oi == active_index[other]
  IN IF ai = none_initialised /\ oi # none_initialised
       THEN initialise_move(st0, a, oi, other, u, m)
     ELSE IF ai # none_initialised /\ oi = none_initialised
       THEN destruct(st0, a, ai)
     ELSE IF ai # none_initialised /\ oi # none_initialised
       THEN IF ai = oi
              THEN move(st0, a, ai, other, u, m)
              ELSE initialise_move(destruct(st0, a, ai), a, oi, other, u, m)
     ELSE st0

\* a move assignment that empties other whether or not the variant is
\* default constructable
move_assign_empties_always(oi) == oi # none_initialised

\* other is emptied after a move assignment
move_assign_empties(oi) == oi # none_initialised /\ nullable

\* variant& operator = (variant && other)
MoveAssign ==
  \E a \in Callable, other \in Slots :
  \E u \in OracleFor(assign_needs_u(a, other)), m \in OracleFor(~nullable) :
      /\ alive[a]
      /\ alive[other]
      /\ LET oi  == active_index[other]
             st1 == move_assign(a, other, u, m)
             emptied == move_assign_empties(oi)
             st2 == IF emptied THEN destruct(st1, other, oi) ELSE st1
         IN /\ active_index' =
                 [v \in Slots |->
                    IF v = other /\ emptied THEN none_initialised
                    ELSE IF v = a THEN oi
                    ELSE active_index[v]]
            /\ values' = st2.vals
            /\ last' = done("move_assign", a, other, active_index[a], oi,
                            values[other].val, "none", Indeterminate, st2)
      /\ UNCHANGED <<nullable, alive, query>>

\* an assignment of the sentinel that destructs whatever the index is
null_assign_destructs_always(i) == TRUE

\* the condition under which operator = (nullvariant_t) destructs
null_assign_destructs(i) == i # none_initialised

\* variant& operator = (nullvariant_t n)
NullAssign ==
  \E v \in Callable :
      /\ nullable
      /\ alive[v]
      /\ LET i  == active_index[v]
             st == IF null_assign_destructs(i) THEN destruct(st0, v, i) ELSE st0
         IN /\ active_index' = [active_index EXCEPT ![v] = none_initialised]
            /\ values' = st.vals
            /\ last' = done("null_assign", v, 0, i, none_initialised,
                            Indeterminate, "none", Indeterminate, st)
      /\ UNCHANGED <<nullable, alive, query>>

\* a value assignment that constructs the new alternative over the old one
value_assign_no_destruct(v, X, x, u) ==
  IF active_index[v] = first(X, TypeList)
    THEN assign(st0, v, X, x, u)
    ELSE initialise(st0, v, X, x)

\* the storage calls of operator = (X && x)
value_assign(v, X, x, u) ==
  LET new_active_index == first(X, TypeList)
  IN IF active_index[v] = none_initialised
       THEN initialise(st0, v, X, x)
     ELSE IF active_index[v] = new_active_index
       THEN assign(st0, v, X, x, u)
     ELSE initialise(destruct(st0, v, active_index[v]), v, X, x)

\* variant& operator = (X && x)
ValueAssign ==
  \E v \in Callable, X \in Types, x \in Payloads :
  \E u \in OracleFor(value_assign_needs_u(v, X)) :
      /\ alive[v]
      /\ has(X, TypeList)
      /\ LET st == value_assign(v, X, x, u)
         IN /\ active_index' = [active_index EXCEPT ![v] = first(X, TypeList)]
            /\ values' = st.vals
            /\ last' = done("value_assign", v, 0, active_index[v],
                            first(X, TypeList), x, "none", Indeterminate, st)
      /\ UNCHANGED <<nullable, alive, query>>

\* ---- observers ------------------------------------------------------------
\* bool is<X>()
is(v, X) ==
  active_index[v] =
    (IF X = nullvariant_t THEN none_initialised ELSE first(X, TypeList))

\* the static_asserts of is<X>()
is_admits(X) ==
  /\ nullable \/ has(X, TypeList)
  /\ ~nullable \/ X = nullvariant_t \/ has(X, TypeList)

\* a get<X>() that lets an empty variant through
get_throws_unless_empty(v, X) ==
  /\ first(X, TypeList) # active_index[v]
  /\ active_index[v] # none_initialised

\* the condition under which get<X>() throws
get_throws(v, X) == first(X, TypeList) # active_index[v]

\* X& get<X>()
get(v, X, u) ==
  IF get_throws(v, X)
    THEN [res |-> "bad_variant_access", rv |-> Indeterminate]
    ELSE [res |-> "returned",
          rv |-> read_head(values[v], locate(0, X), u)]

\* a try_get<X>() that takes an empty variant for one holding X
try_get_cond_or_empty(v, X) ==
  \/ first(X, TypeList) = active_index[v]
  \/ active_index[v] = none_initialised

\* the condition handed to boost::make_optional by try_get<X>()
try_get_cond(v, X) == first(X, TypeList) = active_index[v]

\* boost::optional<X> try_get<X>()
try_get(v, X, u) ==
  IF try_get_cond(v, X)
    THEN [res |-> "present",
          rv |-> read_head(values[v], locate(0, X), u)]
    ELSE [res |-> "absent", rv |-> Indeterminate]

\* operator == (const variant & v, nullvariant_t n)
eq_null(v) == active_index[v] = none_initialised

\* a != against the sentinel that answers like ==
ne_null_as_eq(v) == active_index[v] = none_initialised

\* operator != (const variant & v, nullvariant_t n)
ne_null(v) == active_index[v] # none_initialised

\* the outcomes of operator == (const variant &, const variant &)
operator_eq(f, s) ==
  IF active_index[f] = active_index[s]
    THEN IF active_index[f] = none_initialised
           THEN {"true"}
           ELSE is_equal(0, active_index[f], values[f], values[s])
    ELSE {"false"}

\* the outcomes of operator != (const variant &, const variant &)
operator_ne(f, s) ==
  IF active_index[f] # active_index[s]
    THEN {"true"}
    ELSE is_not_equal(0, active_index[f], values[f], values[s])

\* the optional reads the head of type t of cell s to build its value
read(st, s, t) ==
  [st EXCEPT !.faults = @ \cup (IF t \in st.vals[s].objs THEN {}
                                ELSE {"read_unconstructed"}),
             !.ev = Append(@, <<"read", s>>)]

\* a make_optional that builds its value whatever cond is
make_optional_always(cond) == TRUE

\* boost::make_optional(cond, x) builds its value from x when cond holds
make_optional(cond) == cond

\* values.get<X>() yields a reference to the head of type X, whatever is
\* active; make_optional(cond, std::move(values.get<X>())): when cond holds
\* the optional is built from the rvalue, which leaves the stored value
\* moved-from (or untouched, where the optional copies)
TryGet ==
  \E v \in Callable, X \in Types :
  \E u \in OracleFor(values[v].rep # locate(0, X)),
     m \in OracleFor(try_get_cond(v, X)) :
      /\ alive[v]
      /\ has(X, TypeList)
      /\ LET r  == try_get(v, X, u)
             st == IF make_optional(try_get_cond(v, X))
                     THEN moved_from(read(st0, v, locate(0, X)),
                                     v, locate(0, X), m)
                     ELSE st0
         IN /\ values' = st.vals
            /\ last' = done("try_get", v, 0, active_index[v],
                            first(X, TypeList), values[v].val, r.res, r.rv, st)
      /\ UNCHANGED <<nullable, alive, active_index, query>>

Next ==
  \/ DefaultConstruct
  \/ NullConstruct
  \/ CopyConstruct
  \/ MoveConstruct
  \/ ValueConstruct
  \/ Destroy
  \/ CopyAssign
  \/ MoveAssign
  \/ NullAssign
  \/ ValueAssign
  \/ TryGet
  \/ Resume

Spec == Init /\ [][Next]_vars

\* ---- type_algorithms.hpp on its own -----------------------------------------
\* the types a list is made of and asked for: the alternatives and one
\* type that is none of them
Names == Types \cup {nullvariant_t}

\* the type lists (Ts ...) of up to MaxLen types, repetitions included
TypeLists == UNION {[1..n -> Names] : n \in 0..MaxLen}

TypesInit ==
  /\ nullable = FALSE
  /\ alive = [v \in Slots |-> FALSE]
  /\ active_index = [v \in Slots |-> none_initialised]
  /\ values = [v \in Slots |-> EmptyCell]
  /\ last = NoOp
  /\ \E Ts \in TypeLists, X \in Names :
       query = [NoQuery EXCEPT !.Ts = Ts, !.X = X]

\* type::has<X, Ts ...>::value
EvalHas ==
  /\ ~query.has_known
  /\ query' = [query EXCEPT !.has_known = TRUE, !.has = has(query.X, query.Ts)]
  /\ UNCHANGED <<nullable, alive, active_index, values, last>>

\* type::first<X, Ts ...>::value
EvalFirst ==
  /\ ~query.first_known
  /\ query' = [query EXCEPT !.first_known = TRUE,
                            !.first = first(query.X, query.Ts)]
  /\ UNCHANGED <<nullable, alive, active_index, values, last>>

TypesNext == EvalHas \/ EvalFirst

TypesSpec == TypesInit /\ [][TypesNext]_vars

TypeOK ==
  /\ nullable \in BOOLEAN
  /\ alive \in [Slots -> BOOLEAN]
  /\ active_index \in [Slots -> 0..none_initialised]
  /\ \A v \in Slots :
       /\ values[v].objs \subseteq 0..(NumTypes - 1)
       /\ values[v].rep \in 0..none_initialised
       /\ values[v].val \in Payloads \cup {Indeterminate}

\* ---- properties ------------------------------------------------------------
Live == {v \in Slots : alive[v]}
Alternatives == 0..(NumTypes - 1)

\* C1: in every reachable state the tag agrees with the cell: active_index
\* is i < N exactly when the cell holds one constructed object, of the i-th
\* alternative, and is N exactly when the cell holds no constructed object.
C1_TagAgreesWithCell ==
  \A v \in Live :
    /\ \A i \in Alternatives :
         (active_index[v] = i) <=> (values[v].objs = {i})
    /\ (active_index[v] = none_initialised) <=> (values[v].objs = {})

\* C2: constructions and destructions are balanced: no operation runs a
\* destructor on an object that is not constructed (never constructed, or
\* destructed before), constructs over a live object, or lets a variant go
\* with an object still constructed in its cell.
C2_Balanced ==
  last.faults \cap
    {"destruct_unconstructed", "construct_over_live", "leaked"} = {}

\* C3: after constructing v from x : X or assigning x to v, from any prior
\* state of v, is<X>() is true, checked get<X>() returns x, and is<Y>() is
\* false for every other alternative Y.
C3_ValueRoundTrip ==
  last.op \in {"value_construct", "value_assign"} =>
    LET v == last.tgt
        X == TypeList[last.idx + 1]
    IN /\ is(v, X)
       /\ \A u \in Payloads : get(v, X, u) = [res |-> "returned", rv |-> last.x]
       /\ \A Y \in Types \ {X} : ~is(v, Y)

\* the alternative type that is active in v, nullvariant_t for none
active_type(v) ==
  IF active_index[v] = none_initialised THEN nullvariant_t
  ELSE TypeList[active_index[v] + 1]

\* C4: in every reachable state checked get<X>() raises bad_variant_access
\* when X is not the active alternative (an empty variant included) and
\* returns the stored value, without raising, when X is active.  (Every
\* reachable state of the variants is the state of an idle state: Resume
\* leaves the variants as they are.)
C4_CheckedGet ==
  idle => \A v \in Live, X \in Types, u \in Payloads :
    /\ active_type(v) # X =>
         get(v, X, u) = [res |-> "bad_variant_access", rv |-> Indeterminate]
    /\ active_type(v) = X =>
         /\ get(v, X, u) = [res |-> "returned", rv |-> values[v].val]
         /\ values[v].val \in Payloads

C4_Witness ==
  \E v, w \in Live, X \in Types :
    /\ active_index[v] = none_initialised
    /\ get(v, X, 1).res = "bad_variant_access"
    /\ active_type(w) # X /\ active_index[w] # none_initialised
    /\ get(w, X, 1).res = "bad_variant_access"

negate(r) == IF r = "true" THEN "false" ELSE IF r = "false" THEN "true" ELSE r

\* C5: a != b always returns a result, the negation of a == b: false when
\* both are empty, true when exactly one is empty or the indices differ.
C5_NeNegatesEq ==
  \A a, b \in Live :
    /\ operator_ne(a, b) \subseteq {"true", "false"}
    /\ operator_ne(a, b) = {negate(e) : e \in operator_eq(a, b)}
    /\ (active_index[a] = none_initialised /\ active_index[b] = none_initialised)
         => operator_ne(a, b) = {"false"}
    /\ active_index[a] # active_index[b] => operator_ne(a, b) = {"true"}

\* C6: in every reachable state try_get<X>() returns a present optional
\* holding the stored value exactly when X is the active alternative, and
\* an absent one otherwise (an empty variant included); the optional a call
\* has returned is the one computed from the state the call started in.
C6_TryGet ==
  /\ idle => \A v \in Live, X \in Types, u \in Payloads :
       /\ active_type(v) = X =>
            /\ try_get(v, X, u) = [res |-> "present", rv |-> values[v].val]
            /\ values[v].val \in Payloads
       /\ active_type(v) # X =>
            try_get(v, X, u) = [res |-> "absent", rv |-> Indeterminate]
  /\ last.op = "try_get" =>
       /\ (last.res = "present") <=> (active_index[last.tgt] = last.idx)
       /\ (last.res = "absent") <=> (active_index[last.tgt] # last.idx)
       /\ last.res = "present" => (last.rv = last.x /\ last.rv \in Payloads)

C6_Witness ==
  /\ last.op = "try_get"
  /\ last.res = "absent"
  /\ active_index[last.tgt] = none_initialised

\* what operator == is to return
equal_values(a, b) ==
  \/ active_index[a] = none_initialised /\ active_index[b] = none_initialised
  \/ /\ active_index[a] = active_index[b]
     /\ active_index[a] # none_initialised
     /\ values[a].val = values[b].val

\* C7: == is reflexive and symmetric, holds exactly when both are empty or
\* both have the same active index and equal live alternatives, and never
\* holds between variants of different alternatives.
C7_Equality ==
  \A a, b \in Live :
    /\ operator_eq(a, a) = {"true"}
    /\ operator_eq(a, b) = operator_eq(b, a)
    /\ operator_eq(a, b) = {truth(equal_values(a, b))}
    /\ active_index[a] # active_index[b] => operator_eq(a, b) = {"false"}

destructs_of(v) ==
  Cardinality({k \in 1..Len(last.ev) : last.ev[k] = <<"destruct", v>>})

\* C8: for a nullable variant and a live source v, after w(move(v)) or
\* w = move(v), for every prior state of w: w has v's original index and
\* value, and v is empty with its alternative destructed exactly once.
C8_MoveRoundTrip ==
  (/\ nullable
   /\ last.op \in {"move_construct", "move_assign"}
   /\ last.tgt # last.src
   /\ last.idx # none_initialised) =>
    /\ active_index[last.tgt] = last.idx
    /\ values[last.tgt].val = last.x
    /\ active_index[last.src] = none_initialised
    /\ destructs_of(last.src) = 1
    /\ values[last.src].objs = {}
    /\ "destruct_unconstructed" \notin last.faults

\* C9: for a live v, after copy construction or copy assignment w = v, for
\* every prior state of w: w == v, v's index and value are unchanged, and a
\* later assignment to w leaves v's index and value unchanged.
C9_CopyInv ==
  (/\ last.op \in {"copy_construct", "copy_assign"}
   /\ last.idx # none_initialised) =>
    /\ operator_eq(last.tgt, last.src) = {"true"}
    /\ active_index[last.src] = last.idx
    /\ values[last.src].val = last.x

C9_LaterAssignFrame ==
  \A v \in Slots :
    (/\ last'.op \in {"copy_assign", "value_assign", "null_assign"}
     /\ last'.tgt # v) =>
      (active_index'[v] = active_index[v] /\ values'[v] = values[v])

C9_CopyRoundTrip == []C9_CopyInv /\ [][C9_LaterAssignFrame]_vars

\* C10: a non-nullable variant is never empty: every constructed variant,
\* moved-from sources included, has its active index in [0, N-1].
C10_NonNullableNeverEmpty ==
  ~nullable =>
    \A v \in Live : active_index[v] \in 0..(none_initialised - 1)

C10_Witness ==
  /\ ~nullable
  /\ last.op = "move_assign"
  /\ last.tgt # last.src
  /\ alive[last.src]
  /\ active_index[last.src] = last.idx
  /\ active_index[last.tgt] = last.idx

\* the positions, counted from 0, at which X occurs in Ts
occurrences(X, Ts) == {i \in 0..(Len(Ts) - 1) : Ts[i + 1] = X}

\* C17: for every type list Ts of n types and every type X, has(X) is true
\* exactly when X occurs in Ts, first(X) is the smallest position at which X
\* occurs when it occurs, and is n, the length of the list, when it does not.
C17_FirstAndHas ==
  LET occ == occurrences(query.X, query.Ts) IN
  /\ query.has_known => (query.has <=> occ # {})
  /\ query.first_known =>
       /\ occ # {} =>
            (query.first \in occ /\ \A i \in occ : query.first <= i)
       /\ occ = {} =>
            (query.first = Len(query.Ts) /\ query.first = length(query.Ts))

C17_Witness ==
  /\ query.first_known /\ query.has_known
  /\ ~query.has
  /\ Len(query.Ts) = MaxLen
  /\ query.first = MaxLen

\* C11: for a non-nullable variant, after w(move(v)) or w = move(v), w has
\* v's original index and value, and v keeps its index with its alternative
\* still constructed and not destructed by the move, so that v's destructor
\* destructs it exactly once.
C11_NonNullableMove ==
  (/\ ~nullable
   /\ last.op \in {"move_construct", "move_assign"}
   /\ last.tgt # last.src) =>
    /\ active_index[last.tgt] = last.idx
    /\ values[last.tgt].val = last.x
    /\ active_index[last.src] = last.idx
    /\ values[last.src].objs = {last.idx}
    /\ destructs_of(last.src) = 0

\* C12: assigning the sentinel to a nullable variant destructs its
\* alternative exactly once when it has one, and does nothing else to the
\* storage; the variant is empty afterwards; on a variant that is already
\* empty (so also the second time) it calls no storage primitive and leaves
\* every variant as it was.
C12_NullAssignInv ==
  last.op = "null_assign" =>
    /\ active_index[last.tgt] = none_initialised
    /\ values[last.tgt].objs = {}
    /\ last.was # none_initialised => last.ev = <<<<"destruct", last.tgt>>>>
    /\ last.was = none_initialised => (last.ev = <<>> /\ last.faults = {})

C12_NullAssignStep ==
  (last'.op = "null_assign" /\ last'.was = none_initialised) =>
    (active_index' = active_index /\ values' = values /\ alive' = alive)

C12_NullAssign == []C12_NullAssignInv /\ [][C12_NullAssignStep]_vars

C12_Witness ==
  /\ last.op = "null_assign"
  /\ last.was = none_initialised
  /\ values[last.tgt].rep = none_initialised
  /\ \E w \in Live \ {last.tgt} : active_index[w] # none_initialised

\* C13: for a nullable variant in every reachable state, v == sentinel,
\* v.is<nullvariant_t>() and the negation of v != sentinel all say whether
\* active_index is N; v == sentinel holds directly after default
\* construction and after construction from the sentinel.
C13_SentinelComparisons ==
  nullable =>
    /\ \A v \in Live :
         /\ is_admits(nullvariant_t)
         /\ eq_null(v) <=> (active_index[v] = none_initialised)
         /\ is(v, nullvariant_t) <=> (active_index[v] = none_initialised)
         /\ (~ne_null(v)) <=> (active_index[v] = none_initialised)
    /\ last.op \in {"default_construct", "null_construct"} =>
         (eq_null(last.tgt) /\ is(last.tgt, nullvariant_t) /\ ~ne_null(last.tgt))

C13_Witness ==
  /\ nullable
  /\ last.op = "null_construct"
  /\ eq_null(last.tgt)
  /\ \E w \in Live : ne_null(w) /\ ~is(w, nullvariant_t)

\* C14: assigning x of alternative X to a variant: when it is empty, one
\* construction and no destruction; when X is active, one assignment in
\* place, no construction and no destruction; when another alternative is
\* active, one destruction and then one construction; nothing is ever
\* constructed in a cell in which an object is still constructed.
C14_ValueAssignSteps ==
  last.op = "value_assign" =>
    LET v == last.tgt IN
    /\ last.was = none_initialised => last.ev = <<<<"construct", v>>>>
    /\ last.was = last.idx => last.ev = <<<<"assign", v>>>>
    /\ last.was \notin {none_initialised, last.idx} =>
         last.ev = <<<<"destruct", v>>, <<"construct", v>>>>
    /\ "construct_over_live" \notin last.faults
    /\ Cardinality(values[v].objs) <= 1
    /\ active_index[v] = last.idx

C14_Witness ==
  /\ last.op = "value_assign"
  /\ last.was \notin {none_initialised, last.idx}
  /\ last.ev = <<<<"destruct", last.tgt>>, <<"construct", last.tgt>>>>
  /\ values[last.tgt].objs = {last.idx}

\* the storage calls the four-case table gives a = b, from the indices of a
\* and b at entry
table_calls(a, ai, bi) ==
  IF ai = none_initialised /\ bi = none_initialised THEN <<>>
  ELSE IF ai = none_initialised THEN <<<<"construct", a>>>>
  ELSE IF bi = none_initialised THEN <<<<"destruct", a>>>>
  ELSE IF ai = bi THEN <<<<"assign", a>>>>
  ELSE <<<<"destruct", a>>, <<"construct", a>>>>

C16_IndexInRange ==
  /\ "assertion_failed" \notin last.faults
  /\ \A a, b \in Live :
       "assertion_failed" \notin (operator_eq(a, b) \cup operator_ne(a, b))

\* C18: try_get<X>() only observes: after it the variant has the index and
\* the stored value it had before (the stored object is not moved-from), so
\* a checked get<X>() after it returns what try_get<X>() returned.
C18_TryGetObserves ==
  last.op = "try_get" =>
    LET v == last.tgt
        X == TypeList[last.idx + 1]
    IN /\ active_index[v] = last.was
       /\ values[v].val = last.x
       /\ last.res = "present" =>
            \A u \in Payloads :
              get(v, X, u) = [res |-> "returned", rv |-> last.rv]

\* C19: try_get<X>() reads the cell as an X only when X is the active
\* alternative; when X is not active (another alternative is, or the variant
\* is empty) it yields the absent result, reads no object of the cell and
\* leaves the cell as it was.
C19_TryGetReadsActiveOnly ==
  last.op = "try_get" =>
    LET v == last.tgt IN
    /\ last.was = last.idx => last.ev = <<<<"read", v>>>>
    /\ last.was # last.idx =>
         /\ last.res = "absent"
         /\ last.ev = <<>>
         /\ last.faults = {}
         /\ values[v].val = last.x

C19_Witness ==
  /\ last.op = "try_get"
  /\ last.was \notin {none_initialised, last.idx}
  /\ last.res = "absent"
  /\ values[last.tgt].objs = {last.was}

\* C20: v = move(v) on a nullable variant with an alternative leaves v
\* empty, the alternative destructed exactly once; v = v (copy) leaves v's
\* index and value unchanged and constructs and destructs nothing.
C20_SelfAssign ==
  LET v == last.tgt IN
  /\ (/\ last.op = "move_assign" /\ last.src = v
      /\ nullable /\ last.idx # none_initialised) =>
       /\ active_index[v] = none_initialised
       /\ destructs_of(v) = 1
       /\ values[v].objs = {}
  /\ (last.op = "copy_assign" /\ last.src = v) =>
       /\ active_index[v] = last.was
       /\ values[v].val = last.x
       /\ \A k \in 1..Len(last.ev) :
            last.ev[k][1] \notin {"construct", "destruct"}

====
